---------------------------- MODULE Spec2Model ----------------------------
(***************************************************************************)
(* A model of Gannt.py, a Streamlit project-tracking script.               *)
(*                                                                         *)
(* The script is executed top to bottom once per user interaction (a       *)
(* "run").  The only state that survives a run is st.session_state (the    *)
(* task table st.session_state.df), the widget state (the selected         *)
(* uploaded file) and the files the export buttons write.  A run is        *)
(* modelled as a sequence of steps, one per section of the script:         *)
(*   upload -> normalize -> editor -> sidebar -> charts -> health ->       *)
(*   delay -> export -> idle                                               *)
(* st.experimental_rerun() ends the run at once and starts a new one.      *)
(*                                                                         *)
(* Cells of the table are tagged values:                                   *)
(*   [k |-> "nan"]                  NaN / NaT / None                       *)
(*   [k |-> "int", v |-> n]         a number                               *)
(*   [k |-> "str", v |-> toks]      a string, as its sequence of tokens    *)
(*                                  (words, " " and ",")                   *)
(*   [k |-> "ts",  v |-> ord]       a Timestamp at midnight of the day     *)
(*                                  with proleptic Gregorian ordinal ord   *)
(*   [k |-> "dtxt", v |-> [sep, f]] a date written as text: three numeric  *)
(*                                  fields f joined by the separator sep   *)
(***************************************************************************)
EXTENDS Integers, Sequences, FiniteSets, TLC

\* ------------------------------------------------------------------ bounds

\* User interactions (script runs triggered by the user) in one session.
MaxEvents == 3

\* Days in the window the recurrence expander's date arguments are drawn
\* from, counted from 2024-08-01.
WindowDays == 61

\* ---------------------------------------------------------------- calendar
\* datetime.date arithmetic as the standard library computes it.

IsLeap(y) == (y % 4 = 0) /\ ((y % 100 # 0) \/ (y % 400 = 0))

DaysInMonth(y, m) ==
    IF m = 2 THEN (IF IsLeap(y) THEN 29 ELSE 28)
    ELSE IF m \in {4, 6, 9, 11} THEN 30 ELSE 31

DaysBeforeYear(y) ==
    (y - 1) * 365 + ((y - 1) \div 4) - ((y - 1) \div 100) + ((y - 1) \div 400)

RECURSIVE DaysBeforeMonth(_, _)
DaysBeforeMonth(y, m) ==
    IF m = 1 THEN 0 ELSE DaysBeforeMonth(y, m - 1) + DaysInMonth(y, m - 1)

\* date(y, m, d).toordinal()
ToOrdinal(y, m, d) == DaysBeforeYear(y) + DaysBeforeMonth(y, m) + d

\* The years the model's dates lie in.
Years == 2023..2025

\* date.fromordinal(n) as <<year, month, day>>
FromOrdinal(n) ==
    LET y == CHOOSE yy \in Years :
                 DaysBeforeYear(yy) < n /\ n <= DaysBeforeYear(yy + 1)
        m == CHOOSE mm \in 1..12 :
                 /\ DaysBeforeYear(y) + DaysBeforeMonth(y, mm) < n
                 /\ n <= DaysBeforeYear(y) + DaysBeforeMonth(y, mm)
                           + DaysInMonth(y, mm)
    IN  <<y, m, n - DaysBeforeYear(y) - DaysBeforeMonth(y, m)>>

YearOf(n) == FromOrdinal(n)[1]
MonthOf(n) == FromOrdinal(n)[2]
DayOf(n) == FromOrdinal(n)[3]

\* date.weekday(): Monday is 0, Sunday is 6
Weekday(n) == (n + 6) % 7

\* dt + timedelta(days=1)
PlusOneDay(n) == n + 1

\* ------------------------------------------------------------------- cells

Nan == [k |-> "nan"]
Num(n) == [k |-> "int", v |-> n]
Str(toks) == [k |-> "str", v |-> toks]
Ts(n) == [k |-> "ts", v |-> n]
DTxt(sep, f) == [k |-> "dtxt", v |-> [sep |-> sep, f |-> f]]

EmptyStr == Str(<< >>)
Word(w) == Str(<<w>>)

\* Series.dt.strftime('%m/%d/%Y'): NaT gives NaN
Strftime(c) ==
    IF c.k = "ts"
    THEN DTxt("/", <<MonthOf(c.v), DayOf(c.v), YearOf(c.v)>>)
    ELSE Nan

\* The text to_csv writes for a datetime64 value at midnight: YYYY-MM-DD
IsoText(c) ==
    IF c.k = "ts"
    THEN DTxt("-", <<YearOf(c.v), MonthOf(c.v), DayOf(c.v)>>)
    ELSE Nan

ValidYmd(y, m, d) ==
    /\ y \in Years
    /\ m \in 1..12
    /\ d >= 1
    /\ d <= DaysInMonth(y, m)

\* Whether the text matches the format '%m/%d/%Y'
MatchesMdy(c) ==
    /\ c.k = "dtxt"
    /\ c.v.sep = "/"
    /\ ValidYmd(c.v.f[3], c.v.f[1], c.v.f[2])

\* Whether the text is an ISO date YYYY-MM-DD
MatchesIso(c) ==
    /\ c.k = "dtxt"
    /\ c.v.sep = "-"
    /\ ValidYmd(c.v.f[1], c.v.f[2], c.v.f[3])

\* pd.to_datetime(col, format='%m/%d/%Y', errors='coerce'), one value
ToDatetimeMdyCoerce(c) ==
    IF c.k = "ts" THEN c
    ELSE IF MatchesMdy(c) THEN Ts(ToOrdinal(c.v.f[3], c.v.f[1], c.v.f[2]))
    ELSE Nan

\* pd.to_datetime(col, errors='coerce'), one value: the format is inferred
ToDatetimeCoerce(c) ==
    IF c.k = "ts" THEN c
    ELSE IF MatchesMdy(c) THEN Ts(ToOrdinal(c.v.f[3], c.v.f[1], c.v.f[2]))
    ELSE IF MatchesIso(c) THEN Ts(ToOrdinal(c.v.f[1], c.v.f[2], c.v.f[3]))
    ELSE Nan


\* -------------------------------------------------------------------- rows
\* One row of the DataFrame: a record with the thirteen columns.

Columns ==
    {"Task", "Subtask", "StartDate", "EndDate", "Assignee", "Status",
     "Progress", "Priority", "TimeSpent", "Comments", "Dependencies",
     "Budget", "Cost"}

Row(task, subtask, start, end, assignee, status, progress, priority, spent, comments, deps, budget, cost) ==
    [Task |-> task, Subtask |-> subtask, StartDate |-> start,
     EndDate |-> end, Assignee |-> assignee, Status |-> status,
     Progress |-> progress, Priority |-> priority, TimeSpent |-> spent,
     Comments |-> comments, Dependencies |-> deps, Budget |-> budget,
     Cost |-> cost]

\* DataFrame.append(dict, ignore_index=True): a column the dict does not
\* name is NaN in the new row; a None value is a missing value too.
AppendedRow(d) ==
    [c \in Columns |-> IF c \in DOMAIN d THEN d[c] ELSE Nan]

Words2(a, b) == Str(<<a, " ", b>>)
Aug(d) == Ts(ToOrdinal(2024, 8, d))
Sep(d) == Ts(ToOrdinal(2024, 9, d))

NotStarted == Words2("Not", "Started")
InProgress == Words2("In", "Progress")
Completed == Word("Completed")

\* The dummy data the script starts with when no file is uploaded.
SeedRows ==
    << Row(Word("Design"), Words2("Requirement", "Gathering"), Aug(1), Aug(2),
           Word("Alice"), Completed, Num(100), Word("High"), Num(16),
           Words2("Requirements", "finalized"), EmptyStr, Num(5000), Num(4800)),
       Row(Word("Design"), Words2("UI/UX", "Design"), Aug(3), Aug(6),
           Word("Bob"), InProgress, Num(60), Word("Medium"), Num(24),
           Str(<<"UI/UX", " ", "in", " ", "progress">>),
           Words2("Requirement", "Gathering"), Num(8000), Num(4000)),
       Row(Word("Design"), Word("Approval"), Aug(7), Aug(9),
           Word("Charlie"), NotStarted, Num(0), Word("Medium"), Num(0),
           EmptyStr, Words2("UI/UX", "Design"), Num(2000), Num(0)),
       Row(Word("Development"), Words2("Backend", "Development"), Aug(10),
           Aug(14), Word("David"), InProgress, Num(50), Word("High"), Num(40),
           Str(<<"Backend", " ", "API", " ", "development", " ", "ongoing">>),
           Word("Approval"), Num(15000), Num(6000)),
       Row(Word("Development"), Words2("Frontend", "Development"), Aug(15),
           Aug(20), Word("Eve"), NotStarted, Num(0), Word("Medium"), Num(0),
           EmptyStr, Words2("Backend", "Development"), Num(12000), Num(0)),
       Row(Word("Testing"), Words2("Unit", "Testing"), Aug(20), Aug(24),
           Word("Frank"), NotStarted, Num(0), Word("High"), Num(0),
           EmptyStr, Words2("Frontend", "Development"), Num(5000), Num(0)),
       Row(Word("Testing"), Words2("Integration", "Testing"), Aug(25), Aug(30),
           Word("Grace"), NotStarted, Num(0), Word("Medium"), Num(0),
           EmptyStr, Words2("Unit", "Testing"), Num(8000), Num(0)),
       Row(Word("Deployment"), Words2("Go", "Live"), Sep(1), Sep(5),
           Word("Heidi"), NotStarted, Num(0), Word("High"), Num(0),
           EmptyStr, Words2("Integration", "Testing"), Num(10000), Num(0)) >>

\* st.session_state.df: the key is absent, holds None, or holds a frame.
NoDf == [st |-> "absent", rows |-> << >>]
NoneDf == [st |-> "None", rows |-> << >>]
Frame(rows) == [st |-> "frame", rows |-> rows]


\* ----------------------------------------------------------------- strings

\* str.strip() on a token sequence: leading and trailing " " are dropped
RECURSIVE LStrip(_)
LStrip(t) == IF t # << >> /\ Head(t) = " " THEN LStrip(Tail(t)) ELSE t

RECURSIVE RStrip(_)
RStrip(t) ==
    IF t # << >> /\ t[Len(t)] = " " THEN RStrip(SubSeq(t, 1, Len(t) - 1)) ELSE t

Strip(t) == RStrip(LStrip(t))

\* str.split(','): the pieces between the commas, empty pieces kept
RECURSIVE SplitFrom(_, _)
SplitFrom(t, cur) ==
    IF t = << >> THEN <<cur>>
    ELSE IF Head(t) = "," THEN <<cur>> \o SplitFrom(Tail(t), << >>)
    ELSE SplitFrom(Tail(t), Append(cur, Head(t)))

SplitComma(t) == SplitFrom(t, << >>)

\* --------------------------------------------------------------- csv files
\* A CSV file is a sequence of rows of text fields: the empty text, the
\* text of a number, the text of a date, or any other text.

NumText(n) == [k |-> "numtxt", v |-> n]

\* DataFrame.to_csv, one value: a missing value is written as the empty
\* field, a Timestamp as its ISO date
ToCsvCell(c) ==
    IF c.k = "nan" THEN EmptyStr
    ELSE IF c.k = "int" THEN NumText(c.v)
    ELSE IF c.k = "ts" THEN IsoText(c)
    ELSE c

\* pd.read_csv, one field: the empty field is NaN, a number is parsed, any
\* other text is kept as a string
ReadCsvCell(c) ==
    IF c = EmptyStr THEN Nan
    ELSE IF c.k = "numtxt" THEN Num(c.v)
    ELSE c

ToCsv(rows) ==
    [i \in 1..Len(rows) |-> [c \in Columns |-> ToCsvCell(rows[i][c])]]

ReadCsv(data) ==
    [i \in 1..Len(data) |-> [c \in Columns |-> ReadCsvCell(data[i][c])]]

\* pd.read_excel: the cells of a sheet are typed already
ReadExcelCell(c) == IF c = EmptyStr THEN Nan ELSE c

ReadExcel(data) ==
    [i \in 1..Len(data) |-> [c \in Columns |-> ReadExcelCell(data[i][c])]]

Mdy(m, d, y) == DTxt("/", <<m, d, y>>)

\* The files the user has at hand to upload.
TasksCsv ==
    [stem |-> "tasks", ext |-> ".csv", data |->
     << Row(Word("A"), Word("plan"), Mdy(8, 1, 2024), Mdy(8, 9, 2024),
            Word("Alice"), Completed, NumText(100), Word("High"), NumText(8),
            EmptyStr, EmptyStr, NumText(100), NumText(40)),
        Row(Word("B"), EmptyStr, Mdy(8, 5, 2024), Mdy(9, 20, 2024),
            Word("Bob"), InProgress, NumText(50), EmptyStr, EmptyStr,
            EmptyStr, Str(<<"A", ",", " ", "Zed", " ">>), NumText(200),
            NumText(10)),
        Row(Word("A"), Word("review"), Mdy(8, 3, 2024), DTxt("-", <<2024, 8, 9>>),
            Word("Alice"), NotStarted, NumText(0), Word("Low"), NumText(0),
            EmptyStr, Word("B"), NumText(0), NumText(0)) >>]

NegativeCsv ==
    [stem |-> "negative", ext |-> ".csv", data |->
     << Row(Word("A"), EmptyStr, Mdy(8, 1, 2024), Mdy(8, 2, 2024),
            Word("Alice"), InProgress, NumText(50), Word("High"), NumText(8),
            EmptyStr, EmptyStr, NumText(100), NumText(40)),
        Row(Word("B"), EmptyStr, Mdy(8, 2, 2024), Mdy(8, 3, 2024),
            Word("Bob"), InProgress, NumText(0 - 20), Word("Low"), NumText(1),
            EmptyStr, EmptyStr, NumText(100), NumText(10)) >>]

ZeroBudgetCsv ==
    [stem |-> "zero", ext |-> ".csv", data |->
     << Row(Word("A"), EmptyStr, Mdy(8, 1, 2024), Mdy(8, 2, 2024),
            Word("Alice"), InProgress, NumText(50), Word("High"), NumText(8),
            EmptyStr, EmptyStr, NumText(0), NumText(40)),
        Row(Word("B"), EmptyStr, Mdy(8, 2, 2024), Mdy(8, 3, 2024),
            Word("Bob"), NotStarted, NumText(0), Word("Low"), NumText(0),
            EmptyStr, Word("A"), NumText(0), NumText(0)) >>]

PlanXlsx ==
    [stem |-> "plan", ext |-> ".xlsx", data |->
     << Row(Word("A"), EmptyStr, Aug(12), Aug(13),
            Word("Alice"), NotStarted, Num(0), Word("High"), Num(0),
            EmptyStr, EmptyStr, Num(0), Num(0)) >>]

\* A file whose name ends in neither '.csv' nor '.xlsx'.
UpperCsv ==
    [stem |-> "TASKS", ext |-> ".CSV", data |-> TasksCsv.data]

NoFile == [stem |-> "", ext |-> "", data |-> << >>]

UserFiles == {TasksCsv, NegativeCsv, ZeroBudgetCsv, PlanXlsx, UpperCsv}

\* The file the "Download Current View as CSV" button writes.
ViewFile(data) == [stem |-> "current_project_view", ext |-> ".csv", data |-> data]

\* --------------------------------------------------------------- load_data

\* Lines 50-51 on a frame read from the file.
ParseDateColumns(rows) ==
    [i \in 1..Len(rows) |->
        [rows[i] EXCEPT !.StartDate = ToDatetimeMdyCoerce(@),
                        !.EndDate = ToDatetimeMdyCoerce(@)]]

\* load_data(uploaded_file): the frame, or None for an unsupported name.
load_data(file) ==
    IF file.ext = ".csv" THEN Frame(ParseDateColumns(ReadCsv(file.data)))
    ELSE IF file.ext = ".xlsx" THEN Frame(ParseDateColumns(ReadExcel(file.data)))
    ELSE NoneDf

\* Whether load_data reports "Unsupported file format." with st.error
load_data_error(file) == file.ext # ".csv" /\ file.ext # ".xlsx"


\* ----------------------------------------------------------- normalization

\* Series.fillna('')
FillNa(c) == IF c.k = "nan" THEN EmptyStr ELSE c

\* Series.replace("", "Medium"): only the empty string is replaced
ReplaceEmptyPriority(c) == IF c = EmptyStr THEN Word("Medium") ELSE c

\* Series.replace("", 0)
ReplaceEmptyNumber(c) == IF c = EmptyStr THEN Num(0) ELSE c

\* Lines 274-285, one row.
NormalizeRow(r) ==
    [r EXCEPT !.Subtask = FillNa(@),
              !.Priority = ReplaceEmptyPriority(@),
              !.Progress = ReplaceEmptyNumber(@),
              !.TimeSpent = ReplaceEmptyNumber(@),
              !.StartDate = Strftime(ToDatetimeCoerce(@)),
              !.EndDate = Strftime(ToDatetimeCoerce(@))]

Normalize(rows) == [i \in 1..Len(rows) |-> NormalizeRow(rows[i])]

\* ------------------------------------------------------------- data editor
\* st.data_editor(df, num_rows="dynamic"): the frame with the user's edit.

RemoveAt(rows, i) ==
    [j \in 1..(Len(rows) - 1) |-> IF j < i THEN rows[j] ELSE rows[j + 1]]

NoEdit == [op |-> "none", row |-> 0, col |-> "", val |-> Nan]
DeleteRow(i) == [op |-> "delete", row |-> i, col |-> "", val |-> Nan]
SetCell(i, c, v) == [op |-> "set", row |-> i, col |-> c, val |-> v]

\* The edits the user makes in the model.
Edits ==
    { DeleteRow(1),
      SetCell(1, "Progress", Num(0 - 20)),
      SetCell(1, "Budget", Num(0)),
      SetCell(1, "Priority", EmptyStr),
      SetCell(2, "Dependencies", Str(<<"Design", ",", "Nothing">>)) }

ApplyEdit(rows, e) ==
    IF e.op = "delete" /\ e.row <= Len(rows) THEN RemoveAt(rows, e.row)
    ELSE IF e.op = "set" /\ e.row <= Len(rows)
    THEN [rows EXCEPT ![e.row] = [@ EXCEPT ![e.col] = e.val]]
    ELSE rows

\* ------------------------------------------------------------------- rrule
\* dateutil's rrule, for the two rules the script builds.  dtstart and
\* until are dates; both ends are inclusive.

\* rrule(freq=WEEKLY, byweekday=0): the rule walks week by week.  The first
\* week runs from dtstart to the Sunday after it, every later week from
\* Monday to Sunday; in each the Monday, if the week holds one, is emitted
\* unless it lies after until.
RECURSIVE WeeklyFrom(_, _)
WeeklyFrom(cur, until) ==
    IF cur > until THEN << >>
    ELSE LET weekEnd == cur + (6 - Weekday(cur))
             hits == IF Weekday(cur) = 0 THEN <<cur>> ELSE << >>
         IN  hits \o WeeklyFrom(weekEnd + 1, until)

\* The rule with `until` taken as exclusive.
RRuleWeeklyMondayExclusive(dtstart, until) == WeeklyFrom(dtstart, until - 1)

RRuleWeeklyMonday(dtstart, until) == WeeklyFrom(dtstart, until)

\* The last Friday of month m of year y: from the month's last day back to
\* the nearest Friday.
LastFridayOfMonth(y, m) ==
    LET last == ToOrdinal(y, m, DaysInMonth(y, m))
    IN  last - ((Weekday(last) - 4) % 7)

\* rrule(freq=MONTHLY, byweekday=FR(-1)): the rule walks month by month from
\* dtstart's month; a date before dtstart is skipped, the first date after
\* until ends the iteration.
RECURSIVE MonthlyFrom(_, _, _, _)
MonthlyFrom(y, m, dtstart, until) ==
    LET d == LastFridayOfMonth(y, m)
        ny == IF m = 12 THEN y + 1 ELSE y
        nm == IF m = 12 THEN 1 ELSE m + 1
    IN  IF d > until THEN << >>
        ELSE (IF d >= dtstart THEN <<d>> ELSE << >>)
             \o MonthlyFrom(ny, nm, dtstart, until)

RRuleMonthlyLastFriday(dtstart, until) ==
    MonthlyFrom(YearOf(dtstart), MonthOf(dtstart), dtstart, until)

recurrence_options == {"Weekly on Monday", "Last Friday of the Month"}

\* The branches written if / else: any other type takes the second rule.
BuildRuleElse(recurrence_type, start_date, end_date) ==
    IF recurrence_type = "Weekly on Monday"
    THEN [bound |-> TRUE, dates |-> RRuleWeeklyMonday(start_date, end_date)]
    ELSE [bound |-> TRUE,
          dates |-> RRuleMonthlyLastFriday(start_date, end_date)]

\* Lines 178-181: whether `rule` is bound, and the dates it yields.  With
\* neither branch taken `rule` stays unbound.
BuildRule(recurrence_type, start_date, end_date) ==
    IF recurrence_type = "Weekly on Monday"
    THEN [bound |-> TRUE, dates |-> RRuleWeeklyMonday(start_date, end_date)]
    ELSE IF recurrence_type = "Last Friday of the Month"
    THEN [bound |-> TRUE,
          dates |-> RRuleMonthlyLastFriday(start_date, end_date)]
    ELSE [bound |-> FALSE, dates |-> << >>]

\* The row lines 186-192 append for the date dt.
RecurringRow(task_name, dt) ==
    AppendedRow([Task |-> task_name, StartDate |-> Ts(dt),
                 EndDate |-> Ts(PlusOneDay(dt)), Status |-> NotStarted,
                 Progress |-> Num(0)])

\* The rows the loop of lines 183-192 appends, in order.
RecurringRows(task_name, recurrence_type, start_date, end_date) ==
    LET ds == BuildRule(recurrence_type, start_date, end_date).dates
    IN  [i \in 1..Len(ds) |-> RecurringRow(task_name, ds[i])]

\* The row lines 298-306 append.
SubtaskRow(task_name, subtask_name) ==
    AppendedRow([Task |-> task_name, Subtask |-> subtask_name,
                 Status |-> NotStarted, Progress |-> Num(0),
                 Assignee |-> Word("Unassigned"), StartDate |-> Nan,
                 EndDate |-> Nan])

\* st.selectbox("Select Task", df['Task'].unique()): the first option is
\* the value of a select box drawn for the first time.
FirstTask(rows) == IF rows = << >> THEN Nan ELSE rows[1].Task


\* ------------------------------------------------------------------ charts

\* pd.to_datetime(col, format='%m/%d/%Y') of lines 328-329 raises ValueError
\* on a text that does not match the format.
DateParseRaises(rows) ==
    \E i \in 1..Len(rows) :
        \E c \in {rows[i].StartDate, rows[i].EndDate} :
            c.k \notin {"nan", "ts"} /\ ~MatchesMdy(c)

\* Lines 328-329 and 146: the frame the charts are drawn from (no text that
\* would raise is left in it).
ChartFrame(rows) ==
    [i \in 1..Len(rows) |->
        [rows[i] EXCEPT !.StartDate = ToDatetimeMdyCoerce(@),
                        !.EndDate = ToDatetimeMdyCoerce(@),
                        !.Dependencies = FillNa(@)]]

\* The references looked up in the Subtask column.
SubtaskMatches(rows, dep) ==
    {j \in 1..Len(rows) : rows[j].Subtask = Str(dep)}

\* df[df['Task'] == dep]: the positions of the rows whose Task is dep
TaskMatches(rows, dep) ==
    {j \in 1..Len(rows) : rows[j].Task = Str(dep)}

Min(S) == CHOOSE x \in S : \A y \in S : x <= y

\* The shapes lines 160-171 add for row i: one per reference that names
\* the Task of some row, from that row's first match.
RECURSIVE ShapesOf(_, _, _)
ShapesOf(rows, i, refs) ==
    IF refs = << >> THEN << >>
    ELSE LET dep == Strip(Head(refs))
             dep_task == TaskMatches(rows, dep)
             shape == IF dep_task = {} THEN << >>
                      ELSE << [x0 |-> rows[Min(dep_task)].EndDate, y0 |-> i,
                               x1 |-> rows[i].StartDate, y1 |-> i,
                               dep |-> dep] >>
         IN  shape \o ShapesOf(rows, i, Tail(refs))

\* create_gantt_chart_with_dependencies: the dependency shapes of the
\* figure, rows in order (lines 158-171).
RECURSIVE GanttShapes(_, _)
GanttShapes(rows, i) ==
    IF i > Len(rows) THEN << >>
    ELSE (IF rows[i].Dependencies.k = "str" /\ rows[i].Dependencies.v # << >>
          THEN ShapesOf(rows, i, SplitComma(rows[i].Dependencies.v))
          ELSE << >>)
         \o GanttShapes(rows, i + 1)

create_gantt_chart_with_dependencies(rows) == GanttShapes(rows, 1)

\* Series.sum() over the rows in I: missing values are skipped
RECURSIVE SumOver(_, _, _)
SumOver(rows, col, I) ==
    IF I = {} THEN 0
    ELSE LET i == Min(I)
             c == rows[i][col]
         IN  (IF c.k = "int" THEN c.v ELSE 0) + SumOver(rows, col, I \ {i})

SumCol(rows, col) == SumOver(rows, col, 1..Len(rows))

RECURSIVE SortedSeq(_)
SortedSeq(S) ==
    IF S = {} THEN << >> ELSE <<Min(S)>> \o SortedSeq(S \ {Min(S)})

\* groupby('End Date')['Progress'].sum(): the rows without an end date
\* are in no group, the groups are in date order
ProgressByEndDate(rows) ==
    LET dates == {rows[i].EndDate.v :
                     i \in {j \in 1..Len(rows) : rows[j].EndDate.k = "ts"}}
        ds == SortedSeq(dates)
    IN  [n \in 1..Len(ds) |->
            [date |-> ds[n],
             total |-> SumOver(rows, "Progress",
                               {j \in 1..Len(rows) :
                                   rows[j].EndDate = Ts(ds[n])})]]

\* Series.cumsum()
RECURSIVE CumSum(_, _)
CumSum(series, acc) ==
    IF series = << >> THEN << >>
    ELSE <<[date |-> Head(series).date, total |-> acc + Head(series).total]>>
         \o CumSum(Tail(series), acc + Head(series).total)

\* burn_down_df, line 335
burn_down_df(rows) == CumSum(ProgressByEndDate(rows), 0)

\* ------------------------------------------------------------------ health

\* df['Cost'].sum() / df['Budget'].sum() on numpy numbers: a zero divisor
\* raises nothing, the quotient is nan (0/0) or +-inf.  A finite quotient
\* is kept as the pair it is the ratio of.
NotShown == [k |-> "none", num |-> 0, den |-> 0]

BurnRate(rows) ==
    LET cost == SumCol(rows, "Cost")
        budget == SumCol(rows, "Budget")
    IN  IF budget # 0 THEN [k |-> "float", num |-> cost, den |-> budget]
        ELSE IF cost = 0 THEN [k |-> "nan", num |-> cost, den |-> budget]
        ELSE IF cost > 0 THEN [k |-> "inf", num |-> cost, den |-> budget]
        ELSE [k |-> "-inf", num |-> cost, den |-> budget]

\* ------------------------------------------------------------------- delay

\* Line 229: End Date as normalized Timestamps (all of them Timestamps at
\* midnight or NaT already).
DelayFrame(rows) ==
    [i \in 1..Len(rows) |-> [rows[i] EXCEPT !.EndDate = ToDatetimeCoerce(@)]]

\* The comparison written <=.
IsDelayedInclusive(r, today_pd) ==
    r.EndDate.k = "ts" /\ r.EndDate.v <= today_pd

\* Whether df['End Date'] < today_pd is True at a row: NaT compares False
IsDelayed(r, today_pd) == r.EndDate.k = "ts" /\ r.EndDate.v < today_pd

\* delayed_tasks, line 231: the index labels of the selected rows, in
\* frame order
RECURSIVE DelayedFrom(_, _, _)
DelayedFrom(rows, i, today_pd) ==
    IF i > Len(rows) THEN << >>
    ELSE (IF IsDelayed(rows[i], today_pd) THEN <<i>> ELSE << >>)
         \o DelayedFrom(rows, i + 1, today_pd)

delayed_tasks(rows, today_pd) == DelayedFrom(rows, 1, today_pd)


\* add_recurring_task_advanced on the frame `rows`: `for dt in rule` raises
\* UnboundLocalError when no branch bound the rule; otherwise the rows are
\* appended and st.experimental_rerun() ends the run.
add_recurring_task_advanced(rows, task_name, recurrence_type, start_date, end_date) ==
    IF BuildRule(recurrence_type, start_date, end_date).bound
    THEN [raised |-> "none",
          rows |-> rows \o RecurringRows(task_name, recurrence_type,
                                         start_date, end_date),
          rerun |-> TRUE]
    ELSE [raised |-> "UnboundLocalError", rows |-> rows, rerun |-> FALSE]

\* ------------------------------------------------------------------- state

VARIABLES
    pc,             \* the section of the script the run is at, or "idle"
    event,          \* the interaction that started the run, with its inputs
    df,             \* st.session_state.df
    uploaded_file,  \* the file selected in the uploader (widget state)
    disk,           \* the csv files the export buttons wrote
    links,          \* the dependency shapes of fig_gantt in this run
    burn_down,      \* burn_down_df of this run
    burn_rate,      \* the Burn Rate metric of this run
    delayed,        \* delayed_tasks of this run
    today,          \* datetime.now() at the delay check of this run, or 0
    err,            \* what the run reported with st.error or raised
    events,         \* the number of user interactions so far
    before,         \* history: the frame when the last handler started
    exported        \* history: the frame the current view file was written from

vars == <<pc, event, df, uploaded_file, disk, links, burn_down, burn_rate,
          delayed, today, err, events, before, exported>>

NoEvent ==
    [kind |-> "none", edit |-> NoEdit, subtask_name |-> EmptyStr,
     task_name |-> EmptyStr, recurrence_type |-> "", start_date |-> 0,
     end_date |-> 0]

\* The run st.experimental_rerun() starts: no button is pressed in it.
RerunEvent == [NoEvent EXCEPT !.kind = "rerun"]

\* The values of the widgets of the model's user.  SubtaskNames is what
\* st.text_input("Subtask Name") returns in the run the Add Subtask button
\* is pressed in; the input is drawn inside the button's branch, so the
\* empty text (its value when first drawn) is among them.
SubtaskNames == {EmptyStr, Word("Review")}
RecurrenceNames == {Word("Standup")}
RecurrenceRanges ==
    { <<ToOrdinal(2024, 8, 1), ToOrdinal(2024, 8, 31)>>,
      <<ToOrdinal(2024, 8, 1), ToOrdinal(2024, 7, 31)>>,
      <<ToOrdinal(2024, 8, 30), ToOrdinal(2024, 9, 30)>> }
Todays == {ToOrdinal(2024, 8, 9), ToOrdinal(2024, 9, 10)}

\* What a run starts from: the figures and messages are the run's own.
StartRun(e) ==
    /\ pc' = "upload"
    /\ event' = e
    /\ links' = << >>
    /\ burn_down' = << >>
    /\ burn_rate' = NotShown
    /\ delayed' = << >>
    /\ today' = 0
    /\ err' = "none"
    /\ before' = NoDf

\* The run ends: the script waits for the next interaction.
EndRun ==
    /\ pc' = "idle"
    /\ event' = NoEvent

Init ==
    /\ pc = "upload"
    /\ event = NoEvent
    /\ df = NoDf
    /\ uploaded_file = NoFile
    /\ disk = [view |-> << >>, view_written |-> FALSE,
               template |-> << >>, template_written |-> FALSE]
    /\ links = << >>
    /\ burn_down = << >>
    /\ burn_rate = NotShown
    /\ delayed = << >>
    /\ today = 0
    /\ err = "none"
    /\ events = 0
    /\ before = NoDf
    /\ exported = << >>

\* ------------------------------------------------------- user interactions

UserAct(e) ==
    /\ pc = "idle"
    /\ events < MaxEvents
    /\ events' = events + 1
    /\ StartRun(e)
    /\ UNCHANGED <<df, disk, exported>>

\* The user selects a file in the uploader.
UploadFile ==
    \E f \in UserFiles \cup
             (IF disk.view_written THEN {ViewFile(disk.view)} ELSE {}) :
        /\ f # uploaded_file
        /\ uploaded_file' = f
        /\ UserAct([NoEvent EXCEPT !.kind = "upload"])

\* The user removes the selected file.
RemoveFile ==
    /\ uploaded_file # NoFile
    /\ uploaded_file' = NoFile
    /\ UserAct([NoEvent EXCEPT !.kind = "remove_file"])

\* The user commits an edit in the data editor.
CommitEdit ==
    \E e \in Edits :
        /\ UserAct([NoEvent EXCEPT !.kind = "edit", !.edit = e])
        /\ UNCHANGED uploaded_file

ClickAddSubtask ==
    \E n \in SubtaskNames :
        /\ UserAct([NoEvent EXCEPT !.kind = "add_subtask", !.subtask_name = n])
        /\ UNCHANGED uploaded_file

ClickAddRecurring ==
    \E t \in recurrence_options, n \in RecurrenceNames,
       r \in RecurrenceRanges :
        /\ UserAct([NoEvent EXCEPT !.kind = "add_recurring",
                                   !.task_name = n, !.recurrence_type = t,
                                   !.start_date = r[1], !.end_date = r[2]])
        /\ UNCHANGED uploaded_file

ClickDownloadView ==
    /\ UserAct([NoEvent EXCEPT !.kind = "download_view"])
    /\ UNCHANGED uploaded_file

ClickDownloadTemplate ==
    /\ UserAct([NoEvent EXCEPT !.kind = "download_template"])
    /\ UNCHANGED uploaded_file

\* Any other interaction (a layout checkbox, the onboarding button).
OtherInteraction ==
    /\ UserAct([NoEvent EXCEPT !.kind = "other"])
    /\ UNCHANGED uploaded_file


\* ------------------------------------------------------------ script steps

\* Lines 58-141: the uploaded file, when one is selected, is loaded and
\* replaces st.session_state.df; without one the dummy data is stored
\* unless the key exists.
UploadStep ==
    /\ pc = "upload"
    /\ IF uploaded_file # NoFile
       THEN /\ df' = load_data(uploaded_file)
            /\ err' = IF load_data_error(uploaded_file)
                      THEN "Unsupported file format" ELSE err
       ELSE /\ df' = IF df.st = "absent" THEN Frame(SeedRows) ELSE df
            /\ err' = err
    /\ pc' = "normalize"
    /\ UNCHANGED <<event, uploaded_file, disk, links, burn_down, burn_rate,
                   delayed, today, events, before, exported>>

\* Lines 274-285.  Subscripting None raises TypeError, which ends the run.
NormalizeStep ==
    /\ pc = "normalize"
    /\ IF df.st = "frame"
       THEN /\ df' = Frame(Normalize(df.rows))
            /\ pc' = "editor"
            /\ UNCHANGED <<event, err>>
       ELSE /\ err' = "TypeError"
            /\ EndRun
            /\ UNCHANGED df
    /\ UNCHANGED <<uploaded_file, disk, links, burn_down, burn_rate, delayed,
                   today, events, before, exported>>

\* Lines 288-289: the editor returns the frame with the user's edit, which
\* is stored.
EditorStep ==
    /\ pc = "editor"
    /\ df' = Frame(ApplyEdit(df.rows, event.edit))
    /\ pc' = "sidebar"
    /\ UNCHANGED <<event, uploaded_file, disk, links, burn_down, burn_rate,
                   delayed, today, err, events, before, exported>>

\* Lines 294-308: the Add Subtask button with a subtask name typed.
AddSubtask ==
    /\ pc = "sidebar"
    /\ event.kind = "add_subtask"
    /\ event.subtask_name # EmptyStr
    /\ before' = df
    /\ df' = Frame(Append(df.rows,
                          SubtaskRow(FirstTask(df.rows), event.subtask_name)))
    /\ pc' = "upload"
    /\ event' = RerunEvent
    /\ UNCHANGED <<uploaded_file, disk, links, burn_down, burn_rate, delayed,
                   today, err, events, exported>>

\* Lines 311-319: the Add Advanced Recurring Task button.
AddRecurring ==
    /\ pc = "sidebar"
    /\ event.kind = "add_recurring"
    /\ LET res == add_recurring_task_advanced(df.rows, event.task_name,
                      event.recurrence_type, event.start_date, event.end_date)
       IN  /\ before' = df
           /\ df' = Frame(res.rows)
           /\ IF res.rerun
              THEN pc' = "upload" /\ event' = RerunEvent /\ err' = err
              ELSE EndRun /\ err' = res.raised
    /\ UNCHANGED <<uploaded_file, disk, links, burn_down, burn_rate, delayed,
                   today, events, exported>>

\* Lines 292-319 with neither button appending: the script goes on.
SidebarStep ==
    /\ pc = "sidebar"
    /\ event.kind # "add_recurring"
    /\ ~(event.kind = "add_subtask" /\ event.subtask_name # EmptyStr)
    /\ pc' = "charts"
    /\ UNCHANGED <<event, df, uploaded_file, disk, links, burn_down,
                   burn_rate, delayed, today, err, events, before, exported>>

\* Lines 328-338: the date columns are parsed again, the Gantt figure and
\* the burn-down series are computed.
ChartsStep ==
    /\ pc = "charts"
    /\ IF DateParseRaises(df.rows)
       THEN /\ err' = "ValueError"
            /\ EndRun
            /\ UNCHANGED <<df, links, burn_down>>
       ELSE /\ df' = Frame(ChartFrame(df.rows))
            /\ links' = create_gantt_chart_with_dependencies(ChartFrame(df.rows))
            /\ burn_down' = burn_down_df(ChartFrame(df.rows))
            /\ pc' = "health"
            /\ UNCHANGED <<event, err>>
    /\ UNCHANGED <<uploaded_file, disk, burn_rate, delayed, today, events,
                   before, exported>>

\* Line 370: create_project_health_dashboard.
HealthStep ==
    /\ pc = "health"
    /\ burn_rate' = BurnRate(df.rows)
    /\ pc' = "delay"
    /\ UNCHANGED <<event, df, uploaded_file, disk, links, burn_down, delayed,
                   today, err, events, before, exported>>

\* Line 373: check_project_delay, at whatever day datetime.now() gives.
DelayStep ==
    /\ pc = "delay"
    /\ \E now \in Todays :
        /\ today' = now
        /\ before' = df
        /\ df' = Frame(DelayFrame(df.rows))
        /\ delayed' = delayed_tasks(DelayFrame(df.rows), now)
    /\ pc' = "export"
    /\ UNCHANGED <<event, uploaded_file, disk, links, burn_down, burn_rate,
                   err, events, exported>>

\* Lines 392-400: the export buttons write the frame with to_csv.
ExportStep ==
    /\ pc = "export"
    /\ IF event.kind = "download_view"
       THEN /\ disk' = [disk EXCEPT !.view = ToCsv(df.rows),
                                    !.view_written = TRUE]
            /\ exported' = df.rows
       ELSE IF event.kind = "download_template"
       THEN /\ disk' = [disk EXCEPT !.template = ToCsv(df.rows),
                                    !.template_written = TRUE]
            /\ UNCHANGED exported
       ELSE UNCHANGED <<disk, exported>>
    /\ EndRun
    /\ UNCHANGED <<df, uploaded_file, links, burn_down, burn_rate, delayed,
                   today, err, events, before>>

Next ==
    \/ UploadFile
    \/ RemoveFile
    \/ CommitEdit
    \/ ClickAddRecurring
    \/ ClickAddSubtask
    \/ ClickDownloadView
    \/ ClickDownloadTemplate
    \/ OtherInteraction
    \/ UploadStep
    \/ NormalizeStep
    \/ EditorStep
    \/ AddSubtask
    \/ AddRecurring
    \/ SidebarStep
    \/ ChartsStep
    \/ HealthStep
    \/ DelayStep
    \/ ExportStep

Spec == Init /\ [][Next]_vars


\* ------------------------------------------- the recurrence expander alone
\* add_recurring_task_advanced called on a frame the script can hold at
\* line 318, with any recurrence type and any two dates of the window.

Window == ToOrdinal(2024, 8, 1)..(ToOrdinal(2024, 8, 1) + WindowDays - 1)

ExpanderTypes == recurrence_options \cup {"Daily"}

ExpanderFrames ==
    { Frame(Normalize(SeedRows)), Frame(Normalize(load_data(TasksCsv).rows)) }

InitExpander ==
    /\ pc = "call"
    /\ event = NoEvent
    /\ df \in ExpanderFrames
    /\ uploaded_file = NoFile
    /\ disk = [view |-> << >>, view_written |-> FALSE,
               template |-> << >>, template_written |-> FALSE]
    /\ links = << >>
    /\ burn_down = << >>
    /\ burn_rate = NotShown
    /\ delayed = << >>
    /\ today = 0
    /\ err = "none"
    /\ events = 0
    /\ before = NoDf
    /\ exported = << >>

ExpanderCall ==
    /\ pc = "call"
    /\ \E t \in ExpanderTypes, n \in RecurrenceNames, a \in Window,
          b \in Window :
        LET res == add_recurring_task_advanced(df.rows, n, t, a, b)
        IN  /\ event' = [NoEvent EXCEPT !.kind = "add_recurring",
                                       !.task_name = n, !.recurrence_type = t,
                                       !.start_date = a, !.end_date = b]
            /\ before' = df
            /\ df' = Frame(res.rows)
            /\ err' = res.raised
            /\ pc' = IF res.rerun THEN "rerun" ELSE "raised"
    /\ UNCHANGED <<uploaded_file, disk, links, burn_down, burn_rate, delayed,
                   today, events, exported>>

NextExpander == ExpanderCall

SpecExpander == InitExpander /\ [][NextExpander]_vars


\* ------------------------------------------------------------------ claims

Max(S) == CHOOSE x \in S : \A y \in S : x >= y
RangeOf(q) == {q[i] : i \in 1..Len(q)}
CountIn(q, x) == Cardinality({i \in 1..Len(q) : q[i] = x})
SameBag(p, q) ==
    /\ Len(p) = Len(q)
    /\ \A x \in RangeOf(p) \cup RangeOf(q) : CountIn(p, x) = CountIn(q, x)

\* C1: ingesting a file with an unsupported extension reports the
\* unsupported-format error and leaves the Task Store as it was.
C1_UnsupportedLeavesStore ==
    [][(pc = "upload" /\ uploaded_file # NoFile
            /\ load_data_error(uploaded_file))
          => (err' = "Unsupported file format" /\ df' = df)]_vars

\* C2: every row of the Task Store, in particular every row the recurrence
\* expander or add-subtask appended, is still in the store after the first
\* step of the rerun that follows the append.
C2_RowsSurviveRerun ==
    [][(pc = "upload" /\ event.kind = "rerun")
          => /\ df'.st = "frame"
             /\ Len(df'.rows) >= Len(df.rows)
             /\ \A r \in RangeOf(df.rows) : r \in RangeOf(df'.rows)]_vars

\* A cell as the value it stands for: a missing value and the empty text
\* are the same absent value, a date text is its calendar date.
CanonCell(c) ==
    IF c.k = "nan" THEN EmptyStr
    ELSE IF c.k = "dtxt" THEN FillNa(ToDatetimeCoerce(c))
    ELSE c

CanonRows(rows) ==
    [i \in 1..Len(rows) |-> [c \in Columns |-> CanonCell(rows[i][c])]]

Priorities == {Word("Low"), Word("Medium"), Word("High")}
Statuses == {NotStarted, InProgress, Completed, Word("Done")}

\* A row free of validation errors (section 3 of the specification).
ValidRow(r) ==
    /\ r.Task.k = "str" /\ r.Task.v # << >>
    /\ r.StartDate.k = "ts" /\ r.EndDate.k = "ts"
    /\ r.EndDate.v >= r.StartDate.v
    /\ r.Progress.k = "int" /\ r.Progress.v \in 0..100
    /\ r.TimeSpent.k = "int" /\ r.TimeSpent.v >= 0
    /\ r.Budget.k = "int" /\ r.Budget.v >= 0
    /\ r.Cost.k = "int" /\ r.Cost.v >= 0
    /\ r.Priority \in Priorities
    /\ r.Status \in Statuses

\* C3: a store free of validation errors that is exported with Download
\* Current View as CSV and ingested again from the exported file is the
\* same multiset of rows, every date the same calendar date.
C3_RoundTrip ==
    (/\ pc = "normalize"
     /\ event.kind = "upload"
     /\ disk.view_written
     /\ uploaded_file = ViewFile(disk.view)
     /\ \A r \in RangeOf(exported) : ValidRow(r))
        => /\ df.st = "frame"
           /\ SameBag(CanonRows(df.rows), CanonRows(exported))

\* The dates of [a, b] that match a known pattern.
MatchingDates(recurrence_type, a, b) ==
    IF recurrence_type = "Weekly on Monday"
    THEN {d \in a..b : Weekday(d) = 0}
    ELSE {d \in a..b :
             /\ Weekday(d) = 4
             /\ \A e \in (d + 1)..(d + 31) :
                    (Weekday(e) = 4) => (MonthOf(e) # MonthOf(d))}

\* C4: for a known pattern the appended rows are, in date order, one per
\* matching date of [range_start, range_end], each with start_date the
\* date, end_date the day after, status Not Started and progress 0; the
\* rows held before are kept in front; an empty range appends nothing.
C4_RecurrenceExpansion ==
    (pc \in {"rerun", "raised"}
        /\ event.recurrence_type \in {"Weekly on Monday",
                                      "Last Friday of the Month"})
        => LET ds == SortedSeq(MatchingDates(event.recurrence_type,
                                             event.start_date, event.end_date))
               old == Len(before.rows)
           IN  /\ pc = "rerun"
               /\ Len(df.rows) = old + Len(ds)
               /\ SubSeq(df.rows, 1, old) = before.rows
               /\ \A i \in 1..Len(ds) :
                     /\ df.rows[old + i].StartDate = Ts(ds[i])
                     /\ df.rows[old + i].EndDate = Ts(ds[i] + 1)
                     /\ df.rows[old + i].Status = NotStarted
                     /\ df.rows[old + i].Progress = Num(0)
                     /\ df.rows[old + i].Task = event.task_name
               /\ (event.end_date < event.start_date => df = before)

\* The example of the specification: Mondays of August 2024.
C4_Witness ==
    /\ pc = "rerun"
    /\ event.recurrence_type = "Weekly on Monday"
    /\ event.start_date = ToOrdinal(2024, 8, 1)
    /\ event.end_date = ToOrdinal(2024, 8, 31)
    /\ Len(df.rows) = Len(before.rows) + 4
    /\ df.rows[Len(df.rows)].StartDate = Ts(ToOrdinal(2024, 8, 26))

\* C5: the burn rate of a store whose budgets sum to 0 is the explicit
\* NotComputable outcome, never infinity or NaN; otherwise it is
\* sum(cost) / sum(budget).
C5_BurnRateNotComputable ==
    pc = "delay"
        => IF SumCol(df.rows, "Budget") = 0
           THEN burn_rate.k = "NotComputable"
           ELSE burn_rate = [k |-> "float", num |-> SumCol(df.rows, "Cost"),
                             den |-> SumCol(df.rows, "Budget")]

\* C6: the burn-down series never decreases from one point to the next.
C6_BurnDownMonotone ==
    pc = "health"
        => \A n \in 1..(Len(burn_down) - 1) :
               burn_down[n].total <= burn_down[n + 1].total

\* C7: a row is in the delayed result iff its end date is set and before
\* today; the result is in store order; the check adds, removes and
\* reorders no row.
C7_DelayDetection ==
    pc = "export"
        => /\ \A i \in 1..Len(df.rows) :
                  (i \in RangeOf(delayed))
                      <=> (df.rows[i].EndDate.k = "ts"
                              /\ df.rows[i].EndDate.v < today)
           /\ \A n \in 1..(Len(delayed) - 1) : delayed[n] < delayed[n + 1]
           /\ RangeOf(delayed) \subseteq 1..Len(df.rows)
           /\ Len(df.rows) = Len(before.rows)
           /\ \A i \in 1..Len(df.rows) : df.rows[i] = before.rows[i]

\* The example of the specification: today 2024-09-10, an end date
\* 2024-08-09 is delayed, 2024-09-20 is not; an unset end date is not.
C7_Witness ==
    /\ pc = "export"
    /\ today = ToOrdinal(2024, 9, 10)
    /\ \E i \in RangeOf(delayed) : df.rows[i].EndDate = Aug(9)
    /\ \E i \in 1..Len(df.rows) :
           df.rows[i].EndDate = Sep(20) /\ i \notin RangeOf(delayed)
    /\ \E i \in 1..Len(df.rows) :
           df.rows[i].EndDate = Nan /\ i \notin RangeOf(delayed)

\* C8: a request with a pattern that is not a known pattern ends in an
\* error and generates no row: the store is the store before the request.
C8_UnknownPattern ==
    (pc \in {"rerun", "raised"}
        /\ event.recurrence_type \notin {"Weekly on Monday",
                                         "Last Friday of the Month"})
        => /\ pc = "raised"
           /\ err # "none"
           /\ df = before

C8_Witness ==
    /\ pc = "raised"
    /\ event.recurrence_type = "Daily"
    /\ event.start_date = ToOrdinal(2024, 8, 1)
    /\ event.end_date = ToOrdinal(2024, 8, 31)
    /\ Len(df.rows) = 8

\* The references of a dependency text: between two commas (or an end of
\* the text) with no comma inside, without the spaces around it.
ReferencesOf(t) ==
    { LET ns == {i \in ab[1]..ab[2] : t[i] # " "}
      IN  IF ns = {} THEN << >> ELSE SubSeq(t, Min(ns), Max(ns)) :
        ab \in { x \in (1..(Len(t) + 1)) \X (0..Len(t)) :
                    /\ x[1] <= x[2] + 1
                    /\ (x[1] = 1 \/ t[x[1] - 1] = ",")
                    /\ (x[2] = Len(t) \/ t[x[2] + 1] = ",")
                    /\ \A i \in x[1]..x[2] : t[i] # "," } }

RowReferences(r) ==
    IF r.Dependencies.k = "str" /\ r.Dependencies.v # << >>
    THEN ReferencesOf(r.Dependencies.v)
    ELSE {}

\* C9: for every row and every reference of its dependency field there is
\* a link iff the reference is the task name of some row; a link runs from
\* the end date of the (first) row of that name to the start date of the
\* referencing row.
C9_DependencyLinks ==
    pc = "health"
        => /\ \A i \in 1..Len(df.rows) :
                  \A ref \in RowReferences(df.rows[i]) :
                      (\E n \in 1..Len(links) :
                           links[n].y0 = i /\ links[n].dep = ref)
                          <=> (\E j \in 1..Len(df.rows) :
                                   df.rows[j].Task = Str(ref))
           /\ \A n \in 1..Len(links) :
                  LET l == links[n]
                      named == {j \in 1..Len(df.rows) :
                                   df.rows[j].Task = Str(l.dep)}
                  IN  /\ l.y0 \in 1..Len(df.rows)
                      /\ l.dep \in RowReferences(df.rows[l.y0])
                      /\ named # {}
                      /\ l.x0 = df.rows[Min(named)].EndDate
                      /\ l.x1 = df.rows[l.y0].StartDate
                      /\ l.y1 = l.y0

\* A row with one reference that names a task and one that names none.
C9_Witness ==
    /\ pc = "health"
    /\ \E n \in 1..Len(links) :
           /\ links[n].dep = <<"A">>
           /\ links[n].x0 = Aug(9)
           /\ links[n].x1 = Aug(5)
           /\ <<"Zed">> \in RowReferences(df.rows[links[n].y0])
    /\ \A n \in 1..Len(links) : links[n].dep # <<"Zed">>

\* C10: after the normalization pass every row has a priority Low, Medium
\* or High; an absent or empty priority is Medium.
C10_PriorityDefault ==
    pc = "editor"
        => \A i \in 1..Len(df.rows) : df.rows[i].Priority \in Priorities

=============================================================================
